---- MODULE Spec2Model ----
(***************************************************************************)
(* FairMind room session and real-time broadcast core.                     *)
(*                                                                         *)
(* The model follows server/routes.ts (WebSocket handlers, broadcastToRoom,*)
(* ensureRoomMember and the HTTP handlers), server/storage.ts (DbStorage)  *)
(* and server/middleware/auth.ts (the in-memory quota).  Every `await` of  *)
(* an async handler is one step: the storage call and the synchronous code *)
(* that follows it up to the next await run atomically, and steps of       *)
(* different handlers interleave freely, as on the Node.js event loop.     *)
(***************************************************************************)
EXTENDS Integers, Sequences, FiniteSets, TLC

VARIABLES
    rooms,            \* table rooms: id -> row (DOMAIN = ids of existing rows)
    messages,         \* table messages, in insertion (timestamp) order
    resolutions,      \* table resolutions, in insertion order (id = index)
    votes,            \* table votes, in insertion order
    resolutionCounts, \* auth.ts:40  userId -> {count, resetDate}
    today,            \* the current day (dates are 2*day, instants of the day 2*day+1)
    hf,               \* aiClient.ts:7  whether the Hugging Face client is configured
    roomConnections,  \* routes.ts:17  roomId -> (userId -> {ws, userName})
    conn,             \* per WebSocket: readyState, authenticatedUserId, currentRoomId
    wsJoin,           \* per WebSocket: the join_room handler awaiting getRoomById
    wsMsgs,           \* number of client WebSocket messages handled so far
    joined,           \* history: the room each socket's client last joined and has
                      \* neither left, closed nor been superseded in
    sent,             \* log of socket writes: each fan-out and who received it
    req               \* per HTTP request slot: the handler's position and locals

dbVars == <<rooms, messages, resolutions, votes>>
quotaVars == <<resolutionCounts, today, hf>>
wsVars == <<roomConnections, conn, wsJoin, wsMsgs, joined>>
vars == <<dbVars, quotaVars, wsVars, sent, req>>

-----------------------------------------------------------------------------
(* Universe of the model *)

Users == {"u1", "u2", "u3"}
RoomIds == {"r1", "r2", "r3"}
ConnIds == {"c1", "c2", "c3"}

\* bound: HTTP requests in one run of the vote specification
MaxReqs == 3
ReqIds == 1..MaxReqs
Null == "null"

\* the WebSocket of each connection is authenticated once, by verifyClient
ConnUser == [c \in ConnIds |-> IF c = "c3" THEN "u2" ELSE "u1"]

\* the display name each client sends in its join_room
ConnName == [c \in ConnIds |-> IF c = "c1" THEN "Ann" ELSE IF c = "c2" THEN "Anna" ELSE "Bob"]

\* bound: client WebSocket messages handled in one run
MaxWsMsgs == 3

\* JavaScript Map: the empty map, set and delete
EmptyMap == [u \in {} |-> Null]
MapSet(m, k, v) == [x \in DOMAIN m \cup {k} |-> IF x = k THEN v ELSE m[x]]
MapDelete(m, k) == [x \in DOMAIN m \ {k} |-> m[x]]

-----------------------------------------------------------------------------
(* Persistence (DbStorage) *)

\* the rows a lookup by primary key returns: <<row>> or <<>> (undefined)
getRoomById(id) == IF id \in DOMAIN rooms THEN <<rooms[id]>> ELSE <<>>

RoomRow(creator, p1, p2) ==
    [createdBy |-> creator, participant1Id |-> p1, participant2Id |-> p2,
     status |-> "active", resolvedAt |-> 0]

\* resolvedAt is the ordinal of the write that set it (0 = NULL): every call
\* passes a fresh `new Date()`.
updateRoomStatus(roomId, status) ==
    IF roomId \in DOMAIN rooms
    THEN [rooms EXCEPT ![roomId].status = status,
                       ![roomId].resolvedAt = rooms[roomId].resolvedAt + 1]
    ELSE rooms

getRoomVotes(roomId) ==
    LET InRoom(v) == v.roomId = roomId IN SelectSeq(votes, InRoom)

getUserVote_SwappedArgs(roomId, userId) ==
    LET Mine(v) == v.roomId = userId /\ v.userId = roomId
    IN SelectSeq(votes, Mine)

\* the rows matching (roomId, userId); the caller takes the first, if any
getUserVote(roomId, userId) ==
    LET Mine(v) == v.roomId = roomId /\ v.userId = userId
    IN SelectSeq(votes, Mine)

createVote(roomId, resolutionId, userId) ==
    Append(votes, [roomId |-> roomId, resolutionId |-> resolutionId, userId |-> userId])

getResolutionById(id) ==
    IF id \in 1..Len(resolutions) THEN id ELSE 0

-----------------------------------------------------------------------------
(* Authorization guard and fan-out *)

ensureRoomMember_RoomExists(roomId, userId) == Len(getRoomById(roomId)) > 0

\* routes.ts:193-204
ensureRoomMember(roomId, userId) ==
    LET room == getRoomById(roomId)
    IN /\ Len(room) > 0
       /\ \/ room[1].createdBy = userId
          \/ room[1].participant1Id = userId
          \/ room[1].participant2Id = userId

Recipients_AnyReadyState(clients, excludeUserId) ==
    LET us == {u \in DOMAIN clients : u # excludeUserId}
    IN [u \in us |-> clients[u].ws]

\* The recipients of a fan-out over the entries of one room: userId -> ws of
\* every entry that is not excluded and whose socket is OPEN.
Recipients(clients, excludeUserId) ==
    LET us == {u \in DOMAIN clients :
                 u # excludeUserId /\ conn[clients[u].ws].readyState = "OPEN"}
    IN [u \in us |-> clients[u].ws]

broadcastToRoom(roomId, message, excludeUserId) ==
    Append(sent, [roomId |-> roomId, message |-> message,
                  to |-> IF roomId \in DOMAIN roomConnections
                         THEN Recipients(roomConnections[roomId], excludeUserId)
                         ELSE EmptyMap])

\* what one socket has received, in order
Inbox(c) ==
    LET ToMe(e) == \E u \in DOMAIN e.to : e.to[u] = c IN SelectSeq(sent, ToMe)

Copies(e, c) == Cardinality({u \in DOMAIN e.to : e.to[u] = c})

-----------------------------------------------------------------------------
(* HTTP request slots *)

\* Request slots are interchangeable: they are taken in order.
Free(h) == req[h].op = "idle" /\ \A k \in 1..(h - 1) : req[k].op # "idle"

IdleReq == [op |-> "idle", pc |-> "idle", userId |-> Null, roomId |-> Null,
            resolutionId |-> 0, local |-> <<>>, result |-> Null]

Finish(h, result) == [req EXCEPT ![h].pc = "done", ![h].result = result]

Goto(h, pc) == [req EXCEPT ![h].pc = pc]

-----------------------------------------------------------------------------
(* POST /api/rooms/:id/vote *)

VoteRooms == {"r1"}
VoteUsers == {"u1", "u2"}
VoteChoices == {1, 2}

VoteRequest(h, userId, roomId, resolutionId) ==
    /\ Free(h)
    /\ req' = [req EXCEPT ![h] = [op |-> "vote", pc |-> "ensureRoomMember",
                                  userId |-> userId, roomId |-> roomId,
                                  resolutionId |-> resolutionId, local |-> <<>>,
                                  result |-> Null]]
    /\ UNCHANGED <<dbVars, quotaVars, wsVars, sent>>

VoteEnsureRoomMember(h) ==
    /\ req[h].op = "vote" /\ req[h].pc = "ensureRoomMember"
    /\ req' = IF ensureRoomMember(req[h].roomId, req[h].userId)
              THEN Goto(h, "getUserVote")
              ELSE Finish(h, "AccessDenied")
    /\ UNCHANGED <<dbVars, quotaVars, wsVars, sent>>

VoteGetUserVote(h) ==
    /\ req[h].op = "vote" /\ req[h].pc = "getUserVote"
    /\ req' = IF Len(getUserVote(req[h].roomId, req[h].userId)) > 0
              THEN Finish(h, "AlreadyVoted")
              ELSE Goto(h, "createVote")
    /\ UNCHANGED <<dbVars, quotaVars, wsVars, sent>>

VoteCreateVote_NoVoteCast(h) ==
    /\ req[h].op = "vote" /\ req[h].pc = "createVote"
    /\ votes' = createVote(req[h].roomId, req[h].resolutionId, req[h].userId)
    /\ req' = Goto(h, "getRoomVotes")
    /\ UNCHANGED <<rooms, messages, resolutions, quotaVars, wsVars, sent>>

VoteCreateVote(h) ==
    /\ req[h].op = "vote" /\ req[h].pc = "createVote"
    /\ votes' = createVote(req[h].roomId, req[h].resolutionId, req[h].userId)
    /\ sent' = broadcastToRoom(req[h].roomId,
                   [type |-> "vote_cast", userId |-> req[h].userId,
                    resolutionId |-> req[h].resolutionId], Null)
    /\ req' = Goto(h, "getRoomVotes")
    /\ UNCHANGED <<rooms, messages, resolutions, quotaVars, wsVars>>

Converged_AnyTwo(allVotes) == Len(allVotes) = 2

Converged_AtLeastTwo(allVotes) ==
    /\ Len(allVotes) >= 2
    /\ allVotes[1].resolutionId = allVotes[2].resolutionId

\* routes.ts:557-561, on the rows getRoomVotes returned
Converged(allVotes) ==
    /\ Len(allVotes) = 2
    /\ allVotes[1].resolutionId = allVotes[2].resolutionId

VoteGetRoomVotes(h) ==
    /\ req[h].op = "vote" /\ req[h].pc = "getRoomVotes"
    /\ req' = IF Converged(getRoomVotes(req[h].roomId))
              THEN Goto(h, "updateRoomStatus")
              ELSE Finish(h, "ok")
    /\ UNCHANGED <<dbVars, quotaVars, wsVars, sent>>

VoteUpdateRoomStatus(h) ==
    /\ req[h].op = "vote" /\ req[h].pc = "updateRoomStatus"
    /\ rooms' = updateRoomStatus(req[h].roomId, "resolved")
    /\ req' = Goto(h, "getResolutionById")
    /\ UNCHANGED <<messages, resolutions, votes, quotaVars, wsVars, sent>>

VoteGetResolutionById(h) ==
    /\ req[h].op = "vote" /\ req[h].pc = "getResolutionById"
    /\ sent' = broadcastToRoom(req[h].roomId,
                   [type |-> "room_resolved",
                    resolution |-> getResolutionById(req[h].resolutionId)], Null)
    /\ req' = Finish(h, "ok")
    /\ UNCHANGED <<dbVars, quotaVars, wsVars>>

-----------------------------------------------------------------------------
(* Request start: authMiddleware has set req.userId; the handler is about  *)
(* to run its first storage call.                                          *)

NewReq(op, pc, userId, roomId) ==
    [op |-> op, pc |-> pc, userId |-> userId, roomId |-> roomId,
     resolutionId |-> 0, local |-> <<>>, result |-> Null]

Request(h, op, userId, roomId) ==
    /\ Free(h)
    /\ req' = [req EXCEPT ![h] = NewReq(op, "ensureRoomMember", userId, roomId)]
    /\ UNCHANGED <<dbVars, quotaVars, wsVars, sent>>

At(h, op, pc) == req[h].op = op /\ req[h].pc = pc

-----------------------------------------------------------------------------
(* GET /api/rooms/:id and GET /api/rooms/:id/messages *)

\* routes.ts:352-360
FetchRoomEnsureRoomMember(h) ==
    /\ At(h, "fetchRoom", "ensureRoomMember")
    /\ req' = IF ensureRoomMember(req[h].roomId, req[h].userId)
              THEN Goto(h, "getRoomById")
              ELSE Finish(h, "AccessDenied")
    /\ UNCHANGED <<dbVars, quotaVars, wsVars, sent>>

\* routes.ts:362-367
FetchRoomGetRoomById(h) ==
    /\ At(h, "fetchRoom", "getRoomById")
    /\ req' = IF Len(getRoomById(req[h].roomId)) = 0
              THEN Finish(h, "NotFound")
              ELSE Finish(h, "ok")
    /\ UNCHANGED <<dbVars, quotaVars, wsVars, sent>>

getRoomMessages_TextOnly(roomId) ==
    LET InRoom(m) == m.roomId = roomId /\ ~m.isVoice IN SelectSeq(messages, InRoom)

\* storage.ts:147-154
getRoomMessages(roomId) ==
    LET InRoom(m) == m.roomId = roomId IN SelectSeq(messages, InRoom)

\* routes.ts:401-409
FetchMessagesEnsureRoomMember(h) ==
    /\ At(h, "fetchMessages", "ensureRoomMember")
    /\ req' = IF ensureRoomMember(req[h].roomId, req[h].userId)
              THEN Goto(h, "getRoomMessages")
              ELSE Finish(h, "AccessDenied")
    /\ UNCHANGED <<dbVars, quotaVars, wsVars, sent>>

\* routes.ts:411-421
FetchMessagesGetRoomMessages(h) ==
    /\ At(h, "fetchMessages", "getRoomMessages")
    /\ req' = [req EXCEPT ![h].pc = "done", ![h].result = "ok",
                          ![h].local = getRoomMessages(req[h].roomId)]
    /\ UNCHANGED <<dbVars, quotaVars, wsVars, sent>>

-----------------------------------------------------------------------------
(* POST /api/rooms/:id/messages and POST /api/transcribe *)

createMessage(roomId, senderId, isVoice) ==
    Append(messages, [roomId |-> roomId, senderId |-> senderId, isVoice |-> isVoice])

\* routes.ts:374-382
MessageEnsureRoomMember(h) ==
    /\ At(h, "message", "ensureRoomMember")
    /\ req' = IF ensureRoomMember(req[h].roomId, req[h].userId)
              THEN Goto(h, "createMessage")
              ELSE Finish(h, "AccessDenied")
    /\ UNCHANGED <<dbVars, quotaVars, wsVars, sent>>

\* routes.ts:384-386; the stored row is identified by its position
MessageCreateMessage(h) ==
    /\ At(h, "message", "createMessage")
    /\ messages' = createMessage(req[h].roomId, req[h].userId, FALSE)
    /\ req' = [req EXCEPT ![h].pc = "getUserById", ![h].local = <<Len(messages')>>]
    /\ UNCHANGED <<rooms, resolutions, votes, quotaVars, wsVars, sent>>

\* routes.ts:387-395
MessageGetUserById(h) ==
    /\ At(h, "message", "getUserById")
    /\ sent' = broadcastToRoom(req[h].roomId,
                   [type |-> "new_message", message |-> req[h].local[1]], Null)
    /\ req' = Finish(h, "ok")
    /\ UNCHANGED <<dbVars, quotaVars, wsVars>>

\* routes.ts:428-436: multer has parsed the upload; without a file the
\* handler answers 400 before any storage call
TranscribeRequest(h, userId, roomId, audioFile) ==
    /\ Free(h)
    /\ req' = [req EXCEPT ![h] =
                 IF audioFile
                 THEN NewReq("transcribe", "ensureRoomMember", userId, roomId)
                 ELSE [NewReq("transcribe", "done", userId, roomId)
                         EXCEPT !.result = "NoAudioFile"]]
    /\ UNCHANGED <<dbVars, quotaVars, wsVars, sent>>

\* routes.ts:438-441
TranscribeEnsureRoomMember(h) ==
    /\ At(h, "transcribe", "ensureRoomMember")
    /\ req' = IF ensureRoomMember(req[h].roomId, req[h].userId)
              THEN Goto(h, "createMessage")
              ELSE Finish(h, "AccessDenied")
    /\ UNCHANGED <<dbVars, quotaVars, wsVars, sent>>

\* routes.ts:445-452
TranscribeCreateMessage(h) ==
    /\ At(h, "transcribe", "createMessage")
    /\ messages' = createMessage(req[h].roomId, req[h].userId, TRUE)
    /\ req' = [req EXCEPT ![h].pc = "getUserById", ![h].local = <<Len(messages')>>]
    /\ UNCHANGED <<rooms, resolutions, votes, quotaVars, wsVars, sent>>

\* routes.ts:454-461
TranscribeGetUserById(h) ==
    /\ At(h, "transcribe", "getUserById")
    /\ sent' = broadcastToRoom(req[h].roomId,
                   [type |-> "new_message", message |-> req[h].local[1]], Null)
    /\ req' = Finish(h, "ok")
    /\ UNCHANGED <<dbVars, quotaVars, wsVars>>

-----------------------------------------------------------------------------
(* Daily quota (middleware/auth.ts:39-68) *)

DailyLimit == 3
MinMessages == 4

Midnight(day) == 2 * day
Now == 2 * today + 1

\* checkResolutionLimit's answer
Allowed(userId) ==
    \/ userId \notin DOMAIN resolutionCounts
    \/ resolutionCounts[userId].resetDate < Midnight(today)
    \/ resolutionCounts[userId].count < DailyLimit

\* checkResolutionLimit's write: an absent or stale entry is reset
checkResolutionLimit(userId) ==
    IF \/ userId \notin DOMAIN resolutionCounts
       \/ resolutionCounts[userId].resetDate < Midnight(today)
    THEN MapSet(resolutionCounts, userId, [count |-> 0, resetDate |-> Midnight(today)])
    ELSE resolutionCounts

incrementResolutionCount_Twice(userId) ==
    IF userId \in DOMAIN resolutionCounts
    THEN [resolutionCounts EXCEPT ![userId].count = @ + 2]
    ELSE MapSet(resolutionCounts, userId, [count |-> 2, resetDate |-> Now])

incrementResolutionCount(userId) ==
    IF userId \in DOMAIN resolutionCounts
    THEN [resolutionCounts EXCEPT ![userId].count = @ + 1]
    ELSE MapSet(resolutionCounts, userId, [count |-> 1, resetDate |-> Now])

-----------------------------------------------------------------------------
(* Resolution generation (services/aiClient.ts) *)

AiRow(score, best) == [ai_score |-> score, suggested_best |-> best]

\* generateFallbackResolutions
generateFallbackResolutions ==
    [resolutions |-> <<AiRow(80, 1), AiRow(70, 0), AiRow(65, 0)>>]

\* What JSON.parse can return for a reply that holds a JSON object: the shape
\* asked for, or any other object (nothing validates it).
ParsedReplies ==
    { [resolutions |-> <<AiRow(85, 1), AiRow(75, 0), AiRow(65, 0)>>],
      [resolutions |-> <<AiRow(85, 1), AiRow(75, 1)>>],
      [resolutions |-> <<AiRow(150, 1), AiRow(75, 0), AiRow(65, 0), AiRow(50, 0)>>],
      [error |-> "overloaded"] }

\* A reply of hf.textGeneration: the call rejects, or the text holds no {...},
\* or it holds one that JSON.parse rejects, or one that parses.
Replies ==
    {[kind |-> "throws"], [kind |-> "noJson"], [kind |-> "badJson"]}
    \cup {[kind |-> "json", parsed |-> p] : p \in ParsedReplies}

\* routes.ts:498-504; the titles and descriptions are left out
ToInsert(roomId, aiResponse) ==
    [i \in 1..Len(aiResponse.resolutions) |->
        [roomId |-> roomId,
         aiScore |-> aiResponse.resolutions[i].ai_score,
         suggestedBest |-> aiResponse.resolutions[i].suggested_best = 1]]

createResolutions(resolutionList) == resolutions \o resolutionList

-----------------------------------------------------------------------------
(* POST /api/rooms/:id/generate-resolutions *)

GenerateEnsureRoomMember_QuotaFirst(h) ==
    /\ At(h, "generate", "ensureRoomMember")
    /\ resolutionCounts' = checkResolutionLimit(req[h].userId)
    /\ req' = IF ~Allowed(req[h].userId) THEN Finish(h, "QuotaExceeded")
              ELSE IF ~ensureRoomMember(req[h].roomId, req[h].userId)
              THEN Finish(h, "AccessDenied")
              ELSE Goto(h, "getRoomMessages")
    /\ UNCHANGED <<dbVars, today, hf, wsVars, sent>>

\* routes.ts:473-484: the membership check, then the quota check, which runs
\* in the continuation of the same await
GenerateEnsureRoomMember(h) ==
    /\ At(h, "generate", "ensureRoomMember")
    /\ IF ~ensureRoomMember(req[h].roomId, req[h].userId)
       THEN /\ req' = Finish(h, "AccessDenied")
            /\ UNCHANGED resolutionCounts
       ELSE /\ resolutionCounts' = checkResolutionLimit(req[h].userId)
            /\ req' = IF Allowed(req[h].userId)
                      THEN Goto(h, "getRoomMessages")
                      ELSE Finish(h, "QuotaExceeded")
    /\ UNCHANGED <<dbVars, today, hf, wsVars, sent>>

\* routes.ts:486-495 and aiClient.ts:28-35: generateResolutions throws at
\* once when the client is not configured
GenerateGetRoomMessages(h) ==
    /\ At(h, "generate", "getRoomMessages")
    /\ req' = IF Len(getRoomMessages(req[h].roomId)) < MinMessages
              THEN Finish(h, "InsufficientContext")
              ELSE IF ~hf THEN Finish(h, "InternalError")
              ELSE Goto(h, "textGeneration")
    /\ UNCHANGED <<dbVars, quotaVars, wsVars, sent>>

\* routes.ts:495-504: generateResolutions has returned aiResponse; mapping a
\* missing `resolutions` throws
GenerateReturned(h, aiResponse) ==
    IF "resolutions" \in DOMAIN aiResponse
    THEN [req EXCEPT ![h].pc = "createResolutions",
                     ![h].local = ToInsert(req[h].roomId, aiResponse)]
    ELSE Finish(h, "InternalError")

\* aiClient.ts:36-61: the first call
GenerateTextGeneration(h, reply) ==
    /\ At(h, "generate", "textGeneration")
    /\ req' = CASE reply.kind = "json" -> GenerateReturned(h, reply.parsed)
                [] reply.kind = "noJson" -> GenerateReturned(h, generateFallbackResolutions)
                [] OTHER -> Goto(h, "retry")
    /\ UNCHANGED <<dbVars, quotaVars, wsVars, sent>>

\* aiClient.ts:62-81: the retry
GenerateRetry(h, reply) ==
    /\ At(h, "generate", "retry")
    /\ req' = CASE reply.kind = "json" -> GenerateReturned(h, reply.parsed)
                [] OTHER -> GenerateReturned(h, generateFallbackResolutions)
    /\ UNCHANGED <<dbVars, quotaVars, wsVars, sent>>

\* routes.ts:506-517
GenerateCreateResolutions(h) ==
    /\ At(h, "generate", "createResolutions")
    /\ resolutions' = createResolutions(req[h].local)
    /\ resolutionCounts' = incrementResolutionCount(req[h].userId)
    /\ sent' = broadcastToRoom(req[h].roomId,
                   [type |-> "resolutions_generated",
                    resolutions |-> [i \in 1..Len(req[h].local) |-> Len(resolutions) + i]],
                   Null)
    /\ req' = Finish(h, "ok")
    /\ UNCHANGED <<rooms, messages, votes, today, hf, wsVars>>

-----------------------------------------------------------------------------
(* POST /api/rooms and POST /api/rooms/join *)

\* routes.ts:307-319 with storage.ts:95-98; the room code is the room id
CreateRoom(h, userId, id) ==
    /\ Free(h)
    /\ id \notin DOMAIN rooms
    /\ rooms' = MapSet(rooms, id, RoomRow(userId, userId, Null))
    /\ req' = [req EXCEPT ![h] =
                 [NewReq("createRoom", "done", userId, id) EXCEPT !.result = "ok"]]
    /\ UNCHANGED <<messages, resolutions, votes, quotaVars, wsVars, sent>>

JoinRequest(h, userId, code) ==
    /\ Free(h)
    /\ req' = [req EXCEPT ![h] = NewReq("join", "getRoomByCode", userId, code)]
    /\ UNCHANGED <<dbVars, quotaVars, wsVars, sent>>

\* routes.ts:330-333
JoinGetRoomByCode(h) ==
    /\ At(h, "join", "getRoomByCode")
    /\ req' = IF Len(getRoomById(req[h].roomId)) = 0
              THEN Finish(h, "NotFound")
              ELSE Goto(h, "updateRoomParticipant")
    /\ UNCHANGED <<dbVars, quotaVars, wsVars, sent>>

JoinUpdateRoomParticipant_SelfJoin(h) ==
    /\ At(h, "join", "updateRoomParticipant")
    /\ LET room == getRoomById(req[h].roomId)
       IN req' = IF Len(room) = 0 THEN Finish(h, "InternalError")
                 ELSE IF room[1].participant1Id = Null
                 THEN [req EXCEPT ![h].pc = "update", ![h].local = <<"participant1Id">>]
                 ELSE IF room[1].participant2Id = Null
                 THEN [req EXCEPT ![h].pc = "update", ![h].local = <<"participant2Id">>]
                 ELSE Finish(h, "ok")
    /\ UNCHANGED <<dbVars, quotaVars, wsVars, sent>>

\* storage.ts:110-118: the row is read, and the slot to write is chosen from it
JoinUpdateRoomParticipant(h) ==
    /\ At(h, "join", "updateRoomParticipant")
    /\ LET room == getRoomById(req[h].roomId)
       IN req' = IF Len(room) = 0 THEN Finish(h, "InternalError")
                 ELSE IF room[1].participant1Id = Null
                 THEN [req EXCEPT ![h].pc = "update", ![h].local = <<"participant1Id">>]
                 ELSE IF room[1].participant2Id = Null
                         /\ room[1].participant1Id # req[h].userId
                 THEN [req EXCEPT ![h].pc = "update", ![h].local = <<"participant2Id">>]
                 ELSE Finish(h, "ok")
    /\ UNCHANGED <<dbVars, quotaVars, wsVars, sent>>

\* storage.ts:115 and 117: the UPDATE chosen above, then routes.ts:336
JoinUpdate(h) ==
    /\ At(h, "join", "update")
    /\ rooms' = IF req[h].local[1] = "participant1Id"
                THEN [rooms EXCEPT ![req[h].roomId].participant1Id = req[h].userId]
                ELSE [rooms EXCEPT ![req[h].roomId].participant2Id = req[h].userId]
    /\ req' = Finish(h, "ok")
    /\ UNCHANGED <<messages, resolutions, votes, quotaVars, wsVars, sent>>

-----------------------------------------------------------------------------
(* Specification of the vote handlers: room r1 with both participants, one *)
(* generated batch, both participants connected; r3 does not exist.        *)

Batch(roomId) == <<[roomId |-> roomId, aiScore |-> 80, suggestedBest |-> TRUE],
                   [roomId |-> roomId, aiScore |-> 70, suggestedBest |-> FALSE],
                   [roomId |-> roomId, aiScore |-> 65, suggestedBest |-> FALSE]>>

InitVote ==
    /\ rooms = [r \in {"r1"} |-> RoomRow("u1", "u1", "u2")]
    /\ messages = <<>>
    /\ votes = <<>>
    /\ resolutions = Batch("r1")
    /\ resolutionCounts = EmptyMap
    /\ today = 1
    /\ hf = TRUE
    /\ roomConnections =
         [r \in {"r1"} |->
            [u \in {"u1", "u2"} |->
               [ws |-> IF u = "u1" THEN "c1" ELSE "c3",
                userName |-> ConnName[IF u = "u1" THEN "c1" ELSE "c3"]]]]
    /\ conn = [c \in ConnIds |->
                 [readyState |-> "OPEN", authenticatedUserId |-> ConnUser[c],
                  currentRoomId |-> IF c = "c2" THEN Null ELSE "r1"]]
    /\ wsJoin = [c \in ConnIds |-> [pc |-> "idle", roomId |-> Null, userName |-> Null]]
    /\ wsMsgs = 0
    /\ joined = [c \in ConnIds |-> IF c = "c2" THEN Null ELSE "r1"]
    /\ sent = <<>>
    /\ req = [h \in ReqIds |-> IdleReq]

NextVote ==
    \/ \E h \in ReqIds, u \in VoteUsers, r \in VoteRooms, x \in VoteChoices :
          VoteRequest(h, u, r, x)
    \/ \E h \in ReqIds : VoteEnsureRoomMember(h)
    \/ \E h \in ReqIds : VoteGetUserVote(h)
    \/ \E h \in ReqIds : VoteCreateVote(h)
    \/ \E h \in ReqIds : VoteGetRoomVotes(h)
    \/ \E h \in ReqIds : VoteUpdateRoomStatus(h)
    \/ \E h \in ReqIds : VoteGetResolutionById(h)

SpecVote == InitVote /\ [][NextVote]_vars

-----------------------------------------------------------------------------
(* Specification of the room-scoped requests: r1 was created by u1, who has *)
(* posted three messages and is connected; u2 has not joined yet; a batch   *)
(* of resolutions exists; r3 does not exist.                                *)

\* bound: HTTP requests in one run of this specification
MaxHttpReqs == 2
HttpReqIds == 1..MaxHttpReqs
HttpUsers == {"u1", "u2"}
HttpRooms == {"r1", "r3"}

InitHttp ==
    /\ rooms = [r \in {"r1"} |-> RoomRow("u1", "u1", Null)]
    /\ messages = [i \in 1..3 |-> [roomId |-> "r1", senderId |-> "u1", isVoice |-> FALSE]]
    /\ votes = <<>>
    /\ resolutions = Batch("r1")
    /\ resolutionCounts = EmptyMap
    /\ today = 1
    /\ hf \in BOOLEAN
    /\ roomConnections =
         [r \in {"r1"} |-> [u \in {"u1"} |-> [ws |-> "c1", userName |-> ConnName["c1"]]]]
    /\ conn = [c \in ConnIds |->
                 [readyState |-> "OPEN", authenticatedUserId |-> ConnUser[c],
                  currentRoomId |-> IF c = "c1" THEN "r1" ELSE Null]]
    /\ wsJoin = [c \in ConnIds |-> [pc |-> "idle", roomId |-> Null, userName |-> Null]]
    /\ wsMsgs = 0
    /\ joined = [c \in ConnIds |-> IF c = "c1" THEN "r1" ELSE Null]
    /\ sent = <<>>
    /\ req = [h \in ReqIds |-> IdleReq]

NextHttp ==
    \/ \E h \in HttpReqIds, u \in HttpUsers, r \in HttpRooms :
          \E op \in {"fetchRoom", "fetchMessages", "message", "generate"} :
             Request(h, op, u, r)
    \/ \E h \in HttpReqIds, u \in HttpUsers, r \in HttpRooms, a \in BOOLEAN :
          TranscribeRequest(h, u, r, a)
    \/ \E h \in HttpReqIds, u \in HttpUsers, r \in HttpRooms :
          VoteRequest(h, u, r, 1)
    \/ \E h \in HttpReqIds, u \in HttpUsers, r \in HttpRooms : JoinRequest(h, u, r)
    \/ \E h \in HttpReqIds : FetchRoomEnsureRoomMember(h)
    \/ \E h \in HttpReqIds : FetchRoomGetRoomById(h)
    \/ \E h \in HttpReqIds : FetchMessagesEnsureRoomMember(h)
    \/ \E h \in HttpReqIds : FetchMessagesGetRoomMessages(h)
    \/ \E h \in HttpReqIds : MessageEnsureRoomMember(h)
    \/ \E h \in HttpReqIds : MessageCreateMessage(h)
    \/ \E h \in HttpReqIds : MessageGetUserById(h)
    \/ \E h \in HttpReqIds : TranscribeEnsureRoomMember(h)
    \/ \E h \in HttpReqIds : TranscribeCreateMessage(h)
    \/ \E h \in HttpReqIds : TranscribeGetUserById(h)
    \/ \E h \in HttpReqIds : GenerateEnsureRoomMember(h)
    \/ \E h \in HttpReqIds : GenerateGetRoomMessages(h)
    \/ \E h \in HttpReqIds, reply \in Replies : GenerateTextGeneration(h, reply)
    \/ \E h \in HttpReqIds, reply \in Replies : GenerateRetry(h, reply)
    \/ \E h \in HttpReqIds : GenerateCreateResolutions(h)
    \/ \E h \in HttpReqIds : VoteEnsureRoomMember(h)
    \/ \E h \in HttpReqIds : VoteGetUserVote(h)
    \/ \E h \in HttpReqIds : VoteCreateVote(h)
    \/ \E h \in HttpReqIds : VoteGetRoomVotes(h)
    \/ \E h \in HttpReqIds : VoteUpdateRoomStatus(h)
    \/ \E h \in HttpReqIds : VoteGetResolutionById(h)
    \/ \E h \in HttpReqIds : JoinGetRoomByCode(h)
    \/ \E h \in HttpReqIds : JoinUpdateRoomParticipant(h)
    \/ \E h \in HttpReqIds : JoinUpdate(h)

SpecHttp == InitHttp /\ [][NextHttp]_vars

-----------------------------------------------------------------------------
(* Properties of the vote handlers *)

\* the identities the rooms table names for a room: creator, slot 1, slot 2
Members(r) ==
    IF r \in DOMAIN rooms
    THEN {rooms[r].createdBy, rooms[r].participant1Id, rooms[r].participant2Id} \ {Null}
    ELSE {}

VoteIdx(roomId) == {i \in 1..Len(votes) : votes[i].roomId = roomId}

TwoVotesSameResolution(roomId) ==
    /\ Cardinality(VoteIdx(roomId)) = 2
    /\ \A i, j \in VoteIdx(roomId) : votes[i].resolutionId = votes[j].resolutionId

IsResolvedEvent(e, roomId) == e.roomId = roomId /\ e.message.type = "room_resolved"

ResolvedEvents(roomId) == {i \in 1..Len(sent) : IsResolvedEvent(sent[i], roomId)}

Stepped(h, pc) == req[h].op = "vote" /\ req[h].pc = pc /\ req'[h].pc # pc

\* C1: a castVote moves the room to resolved and broadcasts room_resolved if
\* and only if the votes it fetches after recording its own are exactly two
\* and reference the same resolution; otherwise it completes leaving the
\* status as it was and broadcasting no room_resolved.  No other step changes
\* a room's status or sends room_resolved.
C1_ResolvedIffTwoSameVotes ==
    [][ /\ \A h \in ReqIds : Stepped(h, "getRoomVotes") =>
             IF TwoVotesSameResolution(req[h].roomId)
             THEN req'[h].pc = "updateRoomStatus"
             ELSE /\ req'[h].pc = "done" /\ req'[h].result = "ok"
                  /\ rooms' = rooms /\ sent' = sent
        /\ \A h \in ReqIds : Stepped(h, "updateRoomStatus") =>
             /\ rooms'[req[h].roomId].status = "resolved"
             /\ req'[h].pc = "getResolutionById"
        /\ \A h \in ReqIds : Stepped(h, "getResolutionById") =>
             /\ req'[h].pc = "done" /\ req'[h].result = "ok"
             /\ Len(sent') = Len(sent) + 1
             /\ IsResolvedEvent(sent'[Len(sent')], req[h].roomId)
             /\ sent'[Len(sent')].message.resolution = req[h].resolutionId
        /\ \A r \in DOMAIN rooms : rooms'[r].status # rooms[r].status =>
             \E h \in ReqIds : Stepped(h, "updateRoomStatus") /\ req[h].roomId = r
        /\ \A r \in RoomIds : ResolvedEvents(r)' # ResolvedEvents(r) =>
             \E h \in ReqIds : Stepped(h, "getResolutionById") /\ req[h].roomId = r
      ]_vars

C1_Witness ==
    /\ rooms["r1"].status = "resolved"
    /\ TwoVotesSameResolution("r1")
    /\ ResolvedEvents("r1") # {}
    /\ Cardinality({h \in ReqIds : req[h].pc = "done" /\ req[h].result = "ok"}) = 2

\* C2: at most one vote per (room, identity) pair, in every reachable state.
C2_OneVotePerIdentity ==
    \A i, j \in 1..Len(votes) :
        (votes[i].roomId = votes[j].roomId /\ votes[i].userId = votes[j].userId) => i = j

\* C3: a room is resolved only when two distinct member identities have each
\* cast a vote in it and both votes reference the same resolution.
C3_ResolvedNeedsBothParticipants ==
    \A r \in DOMAIN rooms : rooms[r].status = "resolved" =>
        \E i, j \in VoteIdx(r) :
            /\ votes[i].userId # votes[j].userId
            /\ ensureRoomMember(r, votes[i].userId)
            /\ ensureRoomMember(r, votes[j].userId)
            /\ votes[i].resolutionId = votes[j].resolutionId

HasVote(roomId, userId) ==
    \E i \in VoteIdx(roomId) : votes[i].userId = userId

\* C4: a castVote by an identity that already has a vote in the room ends
\* with AlreadyVoted, and no step of it changes the votes, the room row
\* (status, resolved timestamp) or broadcasts anything.
C4_AlreadyVotedNoChange ==
    [][ \A h \in ReqIds :
          ( /\ req[h].op = "vote"
            /\ req[h].pc \in {"ensureRoomMember", "getUserVote"}
            /\ HasVote(req[h].roomId, req[h].userId)
            /\ req'[h] # req[h] ) =>
          /\ votes' = votes /\ rooms' = rooms /\ sent' = sent
          /\ \/ req[h].pc = "ensureRoomMember" /\ req'[h].pc = "getUserVote"
             \/ req'[h].pc = "done" /\ req'[h].result = "AlreadyVoted"
      ]_vars

C4_Witness ==
    \E h \in ReqIds :
        /\ req[h].pc = "done" /\ req[h].result = "AlreadyVoted"
        /\ HasVote(req[h].roomId, req[h].userId)
        /\ rooms[req[h].roomId].status = "resolved"

RoomScopedOps == {"message", "transcribe", "generate", "vote", "fetchRoom", "fetchMessages"}

\* C5: a room-scoped request (post message, transcription, resolution
\* generation, vote, fetch room, fetch messages) whose caller is not creator,
\* slot 1 or slot 2 of the room, or whose room does not exist, is answered
\* AccessDenied by its first step, which changes no table, no quota entry
\* and broadcasts nothing; no such request is ever past that step (a
\* transcription without an audio file is refused even before it).
C5_NonMemberDenied ==
    /\ [][ \A h \in ReqIds :
             ( /\ req[h].op \in RoomScopedOps
               /\ req[h].pc = "ensureRoomMember"
               /\ req[h].userId \notin Members(req[h].roomId)
               /\ req'[h] # req[h] ) =>
             /\ req'[h].pc = "done" /\ req'[h].result = "AccessDenied"
             /\ messages' = messages /\ resolutions' = resolutions
             /\ votes' = votes /\ rooms' = rooms
             /\ resolutionCounts' = resolutionCounts
             /\ sent' = sent
         ]_vars
    /\ [](\A h \in ReqIds :
            ( /\ req[h].op \in RoomScopedOps
              /\ req[h].userId \notin Members(req[h].roomId) ) =>
            \/ req[h].pc = "ensureRoomMember"
            \/ req[h].pc = "done" /\ req[h].result \in {"AccessDenied", "NoAudioFile"})

C5_Witness ==
    /\ req[1].op = "generate" /\ req[1].userId = "u2" /\ req[1].roomId = "r1"
    /\ req[1].pc = "done" /\ req[1].result = "AccessDenied"
    /\ req[2].op = "vote" /\ req[2].userId = "u1" /\ req[2].roomId = "r3"
    /\ req[2].pc = "done" /\ req[2].result = "AccessDenied"
    /\ "u2" \notin Members("r1")
    /\ Len(messages) = 3 /\ votes = <<>> /\ resolutionCounts = EmptyMap /\ sent = <<>>

-----------------------------------------------------------------------------
(* WebSocket handlers (routes.ts:60-178) *)

\* ws.send on one socket: nothing is written unless the socket is OPEN
SendTo(c, roomId, message) ==
    IF conn[c].readyState = "OPEN"
    THEN Append(sent, [roomId |-> roomId, message |-> message,
                       to |-> [u \in {conn[c].authenticatedUserId} |-> c]])
    ELSE sent

\* ws.close() by the server: an OPEN socket starts closing; its 'close' event
\* fires later
Close(c) ==
    [conn EXCEPT ![c].readyState =
        IF conn[c].readyState = "OPEN" THEN "CLOSING" ELSE conn[c].readyState]

ErrorMsg(text) == [type |-> "error", message |-> text]

IdleJoin == [pc |-> "idle", roomId |-> Null, userName |-> Null]


isParticipant_AnyRoom(room, userId) == room.createdBy # Null

\* routes.ts:88-92
isParticipant(room, userId) ==
    \/ room.createdBy = userId
    \/ room.participant1Id = userId
    \/ room.participant2Id = userId

JoinRecipients_All(roomClients, me) ==
    LET us == {u \in DOMAIN roomClients : conn[roomClients[u].ws].readyState = "OPEN"}
    IN [u \in us |-> roomClients[u].ws]

\* routes.ts:109-120 "notify others in the room": userId -> ws written to
JoinRecipients(roomClients, me) ==
    LET us == {u \in DOMAIN roomClients :
                 u # me /\ conn[roomClients[u].ws].readyState = "OPEN"}
    IN [u \in us |-> roomClients[u].ws]

UserIdMismatch_Never(c, requestedUserId) == FALSE

\* routes.ts:70: the payload's userId against the identity of the upgrade
UserIdMismatch(c, requestedUserId) == requestedUserId # conn[c].authenticatedUserId

\* routes.ts:69-78 'join_room' up to the first await
WsJoinRoom(c, requestedRoomId, requestedUserId, userName) ==
    /\ conn[c].readyState = "OPEN"
    /\ wsMsgs < MaxWsMsgs
    /\ wsJoin[c].pc = "idle"
    /\ wsMsgs' = wsMsgs + 1
    /\ IF UserIdMismatch(c, requestedUserId)
       THEN /\ sent' = SendTo(c, requestedRoomId, ErrorMsg("User ID mismatch"))
            /\ conn' = Close(c)
            /\ UNCHANGED wsJoin
       ELSE /\ wsJoin' = [wsJoin EXCEPT ![c] =
                            [pc |-> "getRoomById", roomId |-> requestedRoomId,
                             userName |-> userName]]
            /\ UNCHANGED <<sent, conn>>
    /\ UNCHANGED <<dbVars, quotaVars, roomConnections, joined, req>>

\* routes.ts:80-121 'join_room' after `await storage.getRoomById`
WsJoinGetRoomById(c) ==
    LET me == conn[c].authenticatedUserId
        roomId == wsJoin[c].roomId
        room == getRoomById(roomId)
        roomClients == MapSet(IF roomId \in DOMAIN roomConnections
                              THEN roomConnections[roomId] ELSE EmptyMap,
                              me, [ws |-> c, userName |-> wsJoin[c].userName])
    IN
    /\ wsJoin[c].pc = "getRoomById"
    /\ wsJoin' = [wsJoin EXCEPT ![c] = IdleJoin]
    /\ IF Len(room) = 0
       THEN /\ sent' = SendTo(c, roomId, ErrorMsg("Room not found"))
            /\ conn' = Close(c)
            /\ UNCHANGED <<roomConnections, joined>>
       ELSE IF ~isParticipant(room[1], me)
       THEN /\ sent' = SendTo(c, roomId, ErrorMsg("Access denied"))
            /\ conn' = Close(c)
            /\ UNCHANGED <<roomConnections, joined>>
       ELSE /\ conn' = [conn EXCEPT ![c].currentRoomId = roomId]
            /\ joined' = [x \in ConnIds |->
                            IF x = c
                            THEN IF conn[c].readyState = "OPEN" THEN roomId ELSE Null
                            ELSE IF conn[x].authenticatedUserId = me /\ joined[x] = roomId
                                 THEN Null ELSE joined[x]]
            /\ roomConnections' = MapSet(roomConnections, roomId, roomClients)
            /\ sent' = Append(sent,
                 [roomId |-> roomId,
                  message |-> [type |-> "user_joined", userId |-> me,
                               userName |-> wsJoin[c].userName],
                  to |-> JoinRecipients(roomClients, me)])
    /\ UNCHANGED <<dbVars, quotaVars, wsMsgs, req>>

\* routes.ts:125-146 and 156-176: the body shared by 'leave_room' and 'close'.
\* readyStates is conn as the handler sees it.
Unregister_KeepEmptyRoom(c, readyStates) ==
    LET me == conn[c].authenticatedUserId
        roomId == conn[c].currentRoomId
    IN
    IF roomId # Null /\ roomId \in DOMAIN roomConnections
    THEN LET roomClients == MapDelete(roomConnections[roomId], me)
             open == {u \in DOMAIN roomClients :
                        readyStates[roomClients[u].ws].readyState = "OPEN"}
         IN /\ sent' = Append(sent,
                 [roomId |-> roomId,
                  message |-> [type |-> "user_left", userId |-> me],
                  to |-> [u \in open |-> roomClients[u].ws]])
            /\ roomConnections' = MapSet(roomConnections, roomId, roomClients)
    ELSE UNCHANGED <<sent, roomConnections>>

Unregister(c, readyStates) ==
    LET me == conn[c].authenticatedUserId
        roomId == conn[c].currentRoomId
    IN
    IF roomId # Null /\ roomId \in DOMAIN roomConnections
    THEN LET roomClients == MapDelete(roomConnections[roomId], me)
             open == {u \in DOMAIN roomClients :
                        readyStates[roomClients[u].ws].readyState = "OPEN"}
         IN /\ sent' = Append(sent,
                 [roomId |-> roomId,
                  message |-> [type |-> "user_left", userId |-> me],
                  to |-> [u \in open |-> roomClients[u].ws]])
            /\ roomConnections' =
                 IF DOMAIN roomClients = {}
                 THEN MapDelete(roomConnections, roomId)
                 ELSE MapSet(roomConnections, roomId, roomClients)
    ELSE UNCHANGED <<sent, roomConnections>>

\* routes.ts:124-148 'leave_room'
WsLeaveRoom(c) ==
    /\ conn[c].readyState = "OPEN"
    /\ wsMsgs < MaxWsMsgs
    /\ wsMsgs' = wsMsgs + 1
    /\ Unregister(c, conn)
    /\ joined' = [joined EXCEPT ![c] = Null]
    /\ UNCHANGED <<dbVars, quotaVars, conn, wsJoin, req>>

\* routes.ts:155-177 'close': the socket is CLOSED when the event fires
WsClose(c) ==
    /\ conn[c].readyState \in {"OPEN", "CLOSING"}
    /\ conn' = [conn EXCEPT ![c].readyState = "CLOSED"]
    /\ Unregister(c, conn')
    /\ joined' = [joined EXCEPT ![c] = Null]
    /\ UNCHANGED <<dbVars, quotaVars, wsJoin, wsMsgs, req>>

-----------------------------------------------------------------------------
(* Specification of the WebSocket protocol: r1 has both participants, r2   *)
(* only its creator u1, r3 does not exist; three sockets are connected     *)
(* (c1 and c2 as u1, c3 as u2) and none has joined yet.                    *)

InitWs ==
    /\ rooms = [r \in {"r1", "r2"} |->
                  IF r = "r1" THEN RoomRow("u1", "u1", "u2")
                  ELSE RoomRow("u1", "u1", Null)]
    /\ messages = <<>>
    /\ votes = <<>>
    /\ resolutions = <<>>
    /\ resolutionCounts = EmptyMap
    /\ today = 1
    /\ hf = TRUE
    /\ roomConnections = EmptyMap
    /\ conn = [c \in ConnIds |->
                 [readyState |-> "OPEN", authenticatedUserId |-> ConnUser[c],
                  currentRoomId |-> Null]]
    /\ wsJoin = [c \in ConnIds |-> IdleJoin]
    /\ wsMsgs = 0
    /\ joined = [c \in ConnIds |-> Null]
    /\ sent = <<>>
    /\ req = [h \in ReqIds |-> IdleReq]

NextWs ==
    \/ \E c \in ConnIds, r \in RoomIds, u \in {"u1", "u2"} :
          WsJoinRoom(c, r, u, ConnName[c])
    \/ \E c \in ConnIds : WsJoinGetRoomById(c)
    \/ \E c \in ConnIds : WsLeaveRoom(c)
    \/ \E c \in ConnIds : WsClose(c)

SpecWs == InitWs /\ [][NextWs]_vars

-----------------------------------------------------------------------------
(* Properties of the WebSocket protocol *)

Registered(r, u) == r \in DOMAIN roomConnections /\ u \in DOMAIN roomConnections[r]

Appended == Len(sent') = Len(sent) + 1 /\ SubSeq(sent', 1, Len(sent)) = sent

Last == sent'[Len(sent')]

\* C6: a join_room whose payload userId differs from the socket's
\* authenticated identity closes the socket, leaves the registry unchanged,
\* leaves no handler behind that could register it, and sends no user_joined.
C6_MismatchRejected ==
    [][ \A c \in ConnIds, r \in RoomIds, u \in Users :
          (u # conn[c].authenticatedUserId /\ WsJoinRoom(c, r, u, ConnName[c])) =>
          /\ conn'[c].readyState # "OPEN"
          /\ roomConnections' = roomConnections
          /\ wsJoin'[c].pc = "idle"
          /\ \A i \in 1..Len(sent') : i > Len(sent) => sent'[i].message.type = "error"
      ]_vars

C6_Witness ==
    \E c \in ConnIds :
        /\ conn[c].readyState = "CLOSING"
        /\ Len(sent) > 0
        /\ sent[Len(sent)].message = ErrorMsg("User ID mismatch")
        /\ sent[Len(sent)].roomId = "r1"
        /\ ~Registered("r1", "u1") /\ ~Registered("r1", "u2")

C8_NewestHandleReceives ==
    [][ \A c \in ConnIds :
          ( /\ joined[c] # Null /\ joined'[c] = joined[c]
            /\ conn[c].readyState = "OPEN"
            /\ Appended /\ Last.roomId = joined[c]
            /\ Last.message.type \in {"user_joined", "user_left"}
            /\ Last.message.userId # conn[c].authenticatedUserId ) =>
          /\ Copies(Last, c) = 1
          /\ \A x \in ConnIds \ {c} :
               conn[x].authenticatedUserId = conn[c].authenticatedUserId =>
               Copies(Last, x) = 0
      ]_vars

\* C9: a leave_room or a close for a (room, user) pair that is not registered
\* changes nothing: the registry is unchanged and no user_left is sent.
C9_LeaveIdempotent ==
    [][ \A c \in ConnIds :
          ( /\ WsLeaveRoom(c) \/ WsClose(c)
            /\ ~Registered(conn[c].currentRoomId, conn[c].authenticatedUserId) ) =>
          /\ roomConnections' = roomConnections
          /\ \A i \in 1..Len(sent') : i > Len(sent) => DOMAIN sent'[i].to = {}
      ]_vars

\* C10: a successful join_room writes user_joined(userId, userName), with the
\* joiner's identity and the name of its payload, exactly once to the socket
\* of every other user registered in the room whose socket is OPEN, and to no
\* other socket, in particular not to the joining one.
C10_JoinNotifiesOthers ==
    [][ \A c \in ConnIds :
          ( /\ WsJoinGetRoomById(c)
            /\ conn[c].authenticatedUserId \in Members(wsJoin[c].roomId) ) =>
          LET r == wsJoin[c].roomId
              me == conn[c].authenticatedUserId
              others == IF r \in DOMAIN roomConnections
                        THEN DOMAIN roomConnections[r] \ {me} ELSE {}
              open == {u \in others : conn[roomConnections[r][u].ws].readyState = "OPEN"}
          IN /\ Appended
             /\ Last.roomId = r
             /\ Last.message = [type |-> "user_joined", userId |-> me,
                                userName |-> wsJoin[c].userName]
             /\ \A u \in open : Copies(Last, roomConnections[r][u].ws) = 1
             /\ \A x \in ConnIds :
                  Copies(Last, x) > 0 => \E u \in open : roomConnections[r][u].ws = x
             /\ Copies(Last, c) = 0
      ]_vars

C10_Witness ==
    \E i \in 1..Len(sent) :
        /\ sent[i].message.type = "user_joined"
        /\ sent[i].message.userId = "u1"
        /\ DOMAIN sent[i].to = {"u2"}
        /\ \E j \in 1..Len(sent) :
             /\ sent[j].message.type = "user_joined"
             /\ sent[j].message.userId = "u1"
             /\ DOMAIN sent[j].to = {}
             /\ sent[j].roomId = sent[i].roomId
             /\ j > i

-----------------------------------------------------------------------------
(* Specification of broadcastToRoom: the registry is any placement of the  *)
(* three sockets in the rooms their users belong to, each socket in any    *)
(* ready state; the function is applied to every room, with and without an *)
(* excluded user, and sockets close in between.                            *)

\* bound: applications of broadcastToRoom in one run
MaxBroadcasts == 1

IsNewMessage(e) == e.message.type = "new_message"

\* broadcastToRoom(roomId, message, excludeUserId), routes.ts:181-190
BroadcastToRoom(roomId, message, excludeUserId) ==
    /\ Len(SelectSeq(sent, IsNewMessage)) < MaxBroadcasts
    /\ sent' = broadcastToRoom(roomId, message, excludeUserId)
    /\ UNCHANGED <<dbVars, quotaVars, wsVars, req>>

\* the registry in which every socket c is registered in room reg[c]
RegistryOf(reg) ==
    [r \in {reg[c] : c \in ConnIds} \ {Null} |->
       [u \in {ConnUser[c] : c \in {x \in ConnIds : reg[x] = r}} |->
          LET c == CHOOSE x \in ConnIds : reg[x] = r /\ ConnUser[x] = u
          IN [ws |-> c, userName |-> ConnName[c]]]]

InitBroadcast ==
    \E reg \in [ConnIds -> {Null, "r1", "r2"}],
       rs \in [ConnIds -> {"OPEN", "CLOSING", "CLOSED"}] :
       /\ rooms = [r \in {"r1", "r2"} |->
                     IF r = "r1" THEN RoomRow("u1", "u1", "u2")
                     ELSE RoomRow("u1", "u1", Null)]
       /\ \A c \in ConnIds : reg[c] # Null => ConnUser[c] \in Members(reg[c])
       /\ \A c, d \in ConnIds :
            (c # d /\ ConnUser[c] = ConnUser[d] /\ reg[c] # Null) => reg[c] # reg[d]
       /\ roomConnections = RegistryOf(reg)
       /\ conn = [c \in ConnIds |->
                    [readyState |-> rs[c], authenticatedUserId |-> ConnUser[c],
                     currentRoomId |-> reg[c]]]
       /\ joined = [c \in ConnIds |-> IF rs[c] = "OPEN" THEN reg[c] ELSE Null]
       /\ messages = <<>>
       /\ votes = <<>>
       /\ resolutions = <<>>
       /\ resolutionCounts = EmptyMap
       /\ today = 1
       /\ hf = TRUE
       /\ wsJoin = [c \in ConnIds |-> IdleJoin]
       /\ wsMsgs = 0
       /\ sent = <<>>
       /\ req = [h \in ReqIds |-> IdleReq]

NextBroadcast ==
    \/ \E r \in RoomIds, x \in {Null, "u1", "u2"} :
          BroadcastToRoom(r, [type |-> "new_message", message |-> 0], x)
    \/ \E c \in ConnIds : WsClose(c)

SpecBroadcast == InitBroadcast /\ [][NextBroadcast]_vars

\* the sockets registered for a room under a user other than x
RegisteredSockets(r, x) ==
    IF r \in DOMAIN roomConnections
    THEN {roomConnections[r][u].ws : u \in DOMAIN roomConnections[r] \ {x}}
    ELSE {}

\* C11: broadcastToRoom(roomId, event, excludeUserId) writes the event exactly
\* once to every socket registered for roomId that is OPEN and is not the
\* excluded user's, and to no other socket (not to a registered socket that
\* is not OPEN, not to sockets registered only in other rooms); nothing is
\* queued: what a fan-out wrote never changes afterwards.
C11_BroadcastExactlyOnce ==
    /\ [][ \A r \in RoomIds, x \in {Null, "u1", "u2"} :
             BroadcastToRoom(r, [type |-> "new_message", message |-> 0], x) =>
             /\ Appended
             /\ Last.roomId = r
             /\ \A c \in ConnIds :
                  Copies(Last, c) =
                    IF c \in RegisteredSockets(r, x) /\ conn[c].readyState = "OPEN"
                    THEN 1 ELSE 0
         ]_vars
    /\ [][ /\ Len(sent') >= Len(sent)
           /\ SubSeq(sent', 1, Len(sent)) = sent ]_vars

C11_Witness ==
    \E i \in 1..Len(sent) :
        /\ IsNewMessage(sent[i]) /\ sent[i].roomId = "r1"
        /\ sent[i].to = [u \in {"u2"} |-> "c3"]
        /\ Registered("r1", "u1") /\ Registered("r2", "u1")
        /\ conn["c1"].readyState = "OPEN" /\ conn["c2"].readyState = "OPEN"

-----------------------------------------------------------------------------
(* Specification of resolution generation: room r1 holds 3 or 4 messages   *)
(* (text and voice; r2 holds others), u1 is a member and u3 is not, each   *)
(* with a quota entry of today, of yesterday, or none; the Hugging Face    *)
(* client is configured or not.                                            *)

\* bound: generate-resolutions requests in one run
MaxGenReqs == 2
GenReqIds == 1..MaxGenReqs
GenUsers == {"u1", "u3"}

Msg(roomId, isVoice) == [roomId |-> roomId, senderId |-> "u1", isVoice |-> isVoice]

\* n messages of r1, the second a voice message, after two messages of r2
MessagesOf(n) ==
    <<Msg("r2", FALSE), Msg("r2", TRUE)>>
      \o [i \in 1..n |-> Msg("r1", i = 2)]

\* the quota entries a user can have: none, or a count with the date of its
\* last reset
QuotaEntries(u) ==
    IF u = "u1"
    THEN {<<>>, <<[count |-> 2, resetDate |-> Midnight(1)]>>,
          <<[count |-> 3, resetDate |-> Midnight(1)]>>,
          <<[count |-> 3, resetDate |-> Midnight(0)]>>}
    ELSE {<<>>, <<[count |-> 3, resetDate |-> Midnight(1)]>>}

InitGenerate ==
    \E n \in {MinMessages - 1, MinMessages},
       q1 \in QuotaEntries("u1"), q3 \in QuotaEntries("u3") :
       /\ rooms = [r \in {"r1", "r2"} |->
                     IF r = "r1" THEN RoomRow("u1", "u1", "u2")
                     ELSE RoomRow("u1", "u1", Null)]
       /\ messages = MessagesOf(n)
       /\ votes = <<>>
       /\ resolutions = <<>>
       /\ resolutionCounts =
            [u \in {x \in GenUsers : Len(IF x = "u1" THEN q1 ELSE q3) > 0} |->
               (IF u = "u1" THEN q1 ELSE q3)[1]]
       /\ today = 1
       /\ hf \in BOOLEAN
       /\ roomConnections =
            [r \in {"r1"} |-> [u \in {"u2"} |-> [ws |-> "c3", userName |-> ConnName["c3"]]]]
       /\ conn = [c \in ConnIds |->
                    [readyState |-> "OPEN", authenticatedUserId |-> ConnUser[c],
                     currentRoomId |-> IF c = "c3" THEN "r1" ELSE Null]]
       /\ wsJoin = [c \in ConnIds |-> IdleJoin]
       /\ wsMsgs = 0
       /\ joined = [c \in ConnIds |-> IF c = "c3" THEN "r1" ELSE Null]
       /\ sent = <<>>
       /\ req = [h \in ReqIds |-> IdleReq]

NextGenerate ==
    \/ \E h \in GenReqIds, u \in GenUsers : Request(h, "generate", u, "r1")
    \/ \E h \in GenReqIds : GenerateEnsureRoomMember(h)
    \/ \E h \in GenReqIds : GenerateGetRoomMessages(h)
    \/ \E h \in GenReqIds, reply \in Replies : GenerateTextGeneration(h, reply)
    \/ \E h \in GenReqIds, reply \in Replies : GenerateRetry(h, reply)
    \/ \E h \in GenReqIds : GenerateCreateResolutions(h)

SpecGenerate == InitGenerate /\ [][NextGenerate]_vars

\* the quota entry of userId is of today and has reached the limit
Exhausted(userId) ==
    /\ userId \in DOMAIN resolutionCounts
    /\ resolutionCounts[userId].resetDate >= Midnight(today)
    /\ resolutionCounts[userId].count >= DailyLimit

MessagesIn(roomId) == {i \in 1..Len(messages) : messages[i].roomId = roomId}

GenStepped(h, pc) == req[h].op = "generate" /\ req[h].pc = pc /\ req'[h] # req[h]

\* C12: generate-resolutions reports the first failing precondition in the
\* order membership, quota, message count: a non-member is answered
\* AccessDenied (and its quota entry is not touched) whatever its quota and
\* the number of messages; a member whose quota is exhausted is answered
\* QuotaExceeded whatever the number of messages.
C12_PreconditionOrder ==
    [][ \A h \in GenReqIds : GenStepped(h, "ensureRoomMember") =>
          /\ req[h].userId \notin Members(req[h].roomId) =>
               /\ req'[h].pc = "done" /\ req'[h].result = "AccessDenied"
               /\ resolutionCounts' = resolutionCounts
          /\ (req[h].userId \in Members(req[h].roomId) /\ Exhausted(req[h].userId)) =>
               req'[h].pc = "done" /\ req'[h].result = "QuotaExceeded"
          /\ (req[h].userId \in Members(req[h].roomId) /\ ~Exhausted(req[h].userId)) =>
               req'[h].pc = "getRoomMessages"
      ]_vars

C12_Witness ==
    /\ Cardinality(MessagesIn("r1")) < MinMessages
    /\ Exhausted("u1") /\ Exhausted("u3")
    /\ req[1].userId = "u3" /\ req[1].pc = "done" /\ req[1].result = "AccessDenied"
    /\ req[2].userId = "u1" /\ req[2].pc = "done" /\ req[2].result = "QuotaExceeded"

\* C13: for a member with remaining quota, generate-resolutions answers
\* InsufficientContext exactly when the room has fewer than 4 persisted
\* messages, text and voice messages counted alike, and otherwise goes on to
\* call generateResolutions (which calls the model when the client is
\* configured).
C13_FourMessagesNeeded ==
    [][ \A h \in GenReqIds : GenStepped(h, "getRoomMessages") =>
          IF Cardinality(MessagesIn(req[h].roomId)) < MinMessages
          THEN req'[h].pc = "done" /\ req'[h].result = "InsufficientContext"
          ELSE /\ req'[h].result # "InsufficientContext"
               /\ hf => req'[h].pc = "textGeneration"
      ]_vars

C13_Witness ==
    /\ Cardinality(MessagesIn("r1")) = MinMessages
    /\ \E i \in MessagesIn("r1") : messages[i].isVoice
    /\ \E h \in GenReqIds : req[h].op = "generate" /\ req[h].pc = "textGeneration"

\* C14: within one day no identity is granted more than 3 generations: the
\* count of batches persisted today on an identity's requests (its quota
\* entry of today, incremented once per persisted batch) never exceeds 3.
C14_AtMostThreePerDay ==
    \A u \in DOMAIN resolutionCounts :
        resolutionCounts[u].resetDate >= Midnight(today) =>
        resolutionCounts[u].count <= DailyLimit

GenerateSucceeded(h) ==
    req[h].op = "generate" /\ req[h].pc = "done" /\ req[h].result = "ok"

\* C15: every successful generate-resolutions persists a batch of exactly 3
\* resolutions, each with a score in 0..100, at most one of them flagged
\* recommended, whatever the model returned.
C15_BatchWellFormed ==
    \A h \in GenReqIds : GenerateSucceeded(h) =>
        LET batch == req[h].local
        IN /\ Len(batch) = 3
           /\ \A i \in 1..Len(batch) : batch[i].aiScore \in 0..100
           /\ Cardinality({i \in 1..Len(batch) : batch[i].suggestedBest}) <= 1

\* C16: when the first reply of the model is malformed or unparsable (the
\* call fails, the text holds no JSON object, or the JSON is invalid),
\* generateResolutions calls the model once more before anything else.
C16_RetryOnMalformed ==
    [][ \A h \in GenReqIds, reply \in Replies :
          (reply.kind # "json" /\ GenerateTextGeneration(h, reply)) =>
          req'[h].pc = "retry"
      ]_vars

\* C17: a generate-resolutions request that has passed its three
\* preconditions never ends with an error.
C17_NoErrorSurfaced ==
    \A h \in GenReqIds :
        (req[h].op = "generate" /\ req[h].pc = "done") =>
        req[h].result \in {"ok", "AccessDenied", "QuotaExceeded", "InsufficientContext"}

-----------------------------------------------------------------------------
(* Specification of room creation and join-by-code: r1 was created by u1;  *)
(* any user creates r2 and any user joins r1 or r2 by code.                *)

\* bound: create-room and join requests in one run
MaxJoinReqs == 3
JoinReqIds == 1..MaxJoinReqs

InitJoin ==
    /\ rooms = [r \in {"r1"} |-> RoomRow("u1", "u1", Null)]
    /\ messages = <<>>
    /\ votes = <<>>
    /\ resolutions = <<>>
    /\ resolutionCounts = EmptyMap
    /\ today = 1
    /\ hf = TRUE
    /\ roomConnections = EmptyMap
    /\ conn = [c \in ConnIds |->
                 [readyState |-> "OPEN", authenticatedUserId |-> ConnUser[c],
                  currentRoomId |-> Null]]
    /\ wsJoin = [c \in ConnIds |-> IdleJoin]
    /\ wsMsgs = 0
    /\ joined = [c \in ConnIds |-> Null]
    /\ sent = <<>>
    /\ req = [h \in ReqIds |-> IdleReq]

NextJoin ==
    \/ \E h \in JoinReqIds, u \in Users : CreateRoom(h, u, "r2")
    \/ \E h \in JoinReqIds, u \in Users, code \in {"r1", "r2"} : JoinRequest(h, u, code)
    \/ \E h \in JoinReqIds : JoinGetRoomByCode(h)
    \/ \E h \in JoinReqIds : JoinUpdateRoomParticipant(h)
    \/ \E h \in JoinReqIds : JoinUpdate(h)

SpecJoin == InitJoin /\ [][NextJoin]_vars

\* C18: a room's slot is written only while it is empty: no step replaces
\* the identity of an occupied slot 1 or slot 2 by another one (so at most 2
\* identities are ever assigned to the slots of a room).
C18_SlotWrittenOnlyWhileEmpty ==
    [][ \A r \in DOMAIN rooms :
          /\ rooms'[r].participant1Id # rooms[r].participant1Id =>
               rooms[r].participant1Id = Null
          /\ rooms'[r].participant2Id # rooms[r].participant2Id =>
               rooms[r].participant2Id = Null
      ]_vars

\* C19: a join-by-code by the identity in slot 1 (the creator) or by the
\* identity already in slot 2 completes without writing: no slot of any
\* room changes.
C19_SelfJoinNoOp ==
    [][ \A h \in JoinReqIds :
          ( /\ At(h, "join", "updateRoomParticipant")
            /\ req'[h] # req[h]
            /\ req[h].roomId \in DOMAIN rooms
            /\ req[h].userId \in {rooms[req[h].roomId].participant1Id,
                                  rooms[req[h].roomId].participant2Id} ) =>
          /\ req'[h].pc = "done" /\ req'[h].result = "ok"
          /\ rooms' = rooms
      ]_vars

C19_Witness ==
    /\ rooms["r1"].createdBy = "u1" /\ rooms["r1"].participant1Id = "u1"
    /\ rooms["r1"].participant2Id = "u2"
    /\ req[1].op = "join" /\ req[1].userId = "u1" /\ req[1].roomId = "r1"
    /\ req[1].pc = "done" /\ req[1].result = "ok"
    /\ \A h \in {2, 3} : /\ req[h].op = "join" /\ req[h].userId = "u2"
                         /\ req[h].roomId = "r1"
                         /\ req[h].pc = "done" /\ req[h].result = "ok"

-----------------------------------------------------------------------------
(* Properties of the vote handlers, continued *)

\* C20: resolved is entered once: as long as every identity has at most one
\* vote per room, a room's resolved timestamp is written at most once and
\* room_resolved is broadcast at most once for it.
C20_ResolvedOnce ==
    (\A r \in DOMAIN rooms, u \in Users :
        Cardinality({i \in VoteIdx(r) : votes[i].userId = u}) <= 1) =>
        \A r \in DOMAIN rooms :
            /\ rooms[r].resolvedAt <= 1
            /\ Cardinality(ResolvedEvents(r)) <= 1

\* the votes of a room, in the order they were recorded
VotesOf(roomId) == getRoomVotes(roomId)

\* C21: once a room holds two votes that reference different resolutions
\* (votes are only appended, so these stay its first two votes), the room is
\* active in every later state and no handler is on its way to resolve it.
C21_DifferingVotesStayActive ==
    \A r \in DOMAIN rooms :
        ( /\ Len(VotesOf(r)) >= 2
          /\ VotesOf(r)[1].resolutionId # VotesOf(r)[2].resolutionId ) =>
        /\ rooms[r].status = "active"
        /\ rooms[r].resolvedAt = 0
        /\ ResolvedEvents(r) = {}
        /\ \A h \in ReqIds :
             (req[h].op = "vote" /\ req[h].roomId = r) =>
             req[h].pc \notin {"updateRoomStatus", "getResolutionById"}

C21_Witness ==
    /\ Len(VotesOf("r1")) = 2
    /\ VotesOf("r1")[1].resolutionId # VotesOf("r1")[2].resolutionId
    /\ \A h \in ReqIds : req[h].pc = "done"
    /\ \E h \in ReqIds : req[h].result = "AlreadyVoted"
    /\ rooms["r1"].status = "active"

-----------------------------------------------------------------------------
(* The vote handlers under the scheduling of the event loop: a continuation *)
(* whose awaited storage call has returned is eventually run.  Nothing      *)
(* obliges a client to send a request.                                      *)

VoteStep(h) ==
    \/ VoteEnsureRoomMember(h)
    \/ VoteGetUserVote(h)
    \/ VoteCreateVote(h)
    \/ VoteGetRoomVotes(h)
    \/ VoteUpdateRoomStatus(h)
    \/ VoteGetResolutionById(h)

SpecVoteFair == SpecVote /\ \A h \in ReqIds : WF_vars(VoteStep(h))

\* each participant of the room has a completed, successful vote request for x
BothVoted(roomId, x) ==
    \A u \in {rooms[roomId].participant1Id, rooms[roomId].participant2Id} :
        \E h \in ReqIds :
            /\ req[h].op = "vote" /\ req[h].pc = "done" /\ req[h].result = "ok"
            /\ req[h].userId = u /\ req[h].roomId = roomId
            /\ req[h].resolutionId = x

ResolvedWith(roomId, x) ==
    /\ rooms[roomId].status = "resolved"
    /\ \E i \in ResolvedEvents(roomId) : sent[i].message.resolution = x

\* C22: when both participants of a room have voted for the same resolution
\* and both requests have run to completion, the room eventually is resolved
\* and a room_resolved event carrying that resolution has been broadcast.
C22_SameVotesEventuallyResolve ==
    \A x \in VoteChoices : BothVoted("r1", x) ~> ResolvedWith("r1", x)

-----------------------------------------------------------------------------
\* the sockets one fan-out was written to
SocketsOf(e) == {e.to[u] : u \in DOMAIN e.to}

\* C23: messages are numbered in the order they were persisted; a connection
\* that receives the new_message events of two messages of one room receives
\* them in that order.
C23_NewMessageInPersistenceOrder ==
    \A i, j \in 1..Len(sent) :
        ( /\ i < j
          /\ sent[i].message.type = "new_message"
          /\ sent[j].message.type = "new_message"
          /\ sent[i].roomId = sent[j].roomId
          /\ SocketsOf(sent[i]) \cap SocketsOf(sent[j]) # {} ) =>
        sent[i].message.message < sent[j].message.message

-----------------------------------------------------------------------------
IsVoteCast(e, roomId) == e.roomId = roomId /\ e.message.type = "vote_cast"

\* positions in the log of the vote_cast events of one room, oldest first
VoteCasts(roomId) == SelectSeq(sent, LAMBDA e : IsVoteCast(e, roomId))

\* C24: the vote_cast events of a room are, in order, its recorded votes (same
\* voter, same resolution), so none is sent for a vote that was not recorded;
\* and every room_resolved event comes after a vote_cast of a recorded vote
\* for the resolution it carries, sent to at least the same sockets.
C24_RecordedThenCastThenResolved ==
    \A r \in DOMAIN rooms :
        /\ Len(VoteCasts(r)) = Len(VotesOf(r))
        /\ \A k \in 1..Len(VoteCasts(r)) :
             /\ VoteCasts(r)[k].message.userId = VotesOf(r)[k].userId
             /\ VoteCasts(r)[k].message.resolutionId = VotesOf(r)[k].resolutionId
        /\ \A j \in ResolvedEvents(r) :
             \E i \in 1..(j - 1) :
                /\ IsVoteCast(sent[i], r)
                /\ sent[i].message.resolutionId = sent[j].message.resolution
                /\ SocketsOf(sent[j]) \subseteq SocketsOf(sent[i])

C24_Witness ==
    /\ ResolvedEvents("r1") # {}
    /\ Len(VoteCasts("r1")) = 2
    /\ SocketsOf(sent[Len(sent)]) = {"c1", "c3"}
    /\ sent[Len(sent)].message.type = "room_resolved"

-----------------------------------------------------------------------------
\* what checkResolutionLimit counts against the limit: the count of an entry
\* of today; an absent entry or one of an earlier day counts nothing
Consumed(counts, userId) ==
    IF userId \in DOMAIN counts /\ counts[userId].resetDate >= Midnight(today)
    THEN counts[userId].count
    ELSE 0

\* C25: the step that persists the batch of a generate-resolutions request
\* adds exactly one to the requester's consumed count, in the continuation
\* that stores the batch and broadcasts it, and the request succeeds; every
\* other step of any request (a failing precondition, a failed generation)
\* leaves every consumed count as it was, and no step changes the consumed
\* count of an identity other than the requester.
C25_QuotaAccounting ==
    [][ /\ \A u \in GenUsers :
             Consumed(resolutionCounts', u) =
               Consumed(resolutionCounts, u)
               + Cardinality({h \in GenReqIds :
                     GenStepped(h, "createResolutions") /\ req[h].userId = u})
        /\ \A h \in GenReqIds : GenStepped(h, "createResolutions") =>
             /\ req'[h].pc = "done" /\ req'[h].result = "ok"
             /\ resolutions' = resolutions \o req[h].local
             /\ Len(sent') = Len(sent) + 1
             /\ sent'[Len(sent')].message.type = "resolutions_generated"
        /\ \A h \in GenReqIds :
             (req[h].pc # "done" /\ req'[h].pc = "done" /\ req'[h].result = "ok") =>
             GenStepped(h, "createResolutions")
      ]_vars

C25_Witness ==
    /\ \E h \in GenReqIds : GenerateSucceeded(h) /\ req[h].userId = "u1"
    /\ \E h \in GenReqIds : req[h].pc = "done" /\ req[h].result = "AccessDenied"
    /\ Consumed(resolutionCounts, "u1") = 1
    /\ Consumed(resolutionCounts, "u3") = 3
    /\ Len(resolutions) > 0

-----------------------------------------------------------------------------
\* C26: the registry holds no room whose map of connections is empty: the
\* key of a room is removed with its last entry.
C26_NoEmptyRoomInRegistry ==
    \A r \in DOMAIN roomConnections : DOMAIN roomConnections[r] # {}

\* the last entry of a room has been removed by a leave or a close
C26_Witness ==
    /\ \E i \in 1..Len(sent) :
          /\ sent[i].message.type = "user_left"
          /\ sent[i].roomId \notin DOMAIN roomConnections
    /\ \E i \in 1..Len(sent) : sent[i].message.type = "user_joined"

-----------------------------------------------------------------------------
\* the sockets held by the entries of the registry
HandlesIn(reg) == UNION {{reg[r][u].ws : u \in DOMAIN reg[r]} : r \in DOMAIN reg}

\* C27: an entry leaves the registry only in a leave_room or close step of
\* the socket it holds.
C27_RemovedOnlyByOwnSocket ==
    [][ \A r \in DOMAIN roomConnections : \A u \in DOMAIN roomConnections[r] :
          ~(Registered(r, u))' =>
          LET c == roomConnections[r][u].ws
          IN WsLeaveRoom(c) \/ WsClose(c)
      ]_vars

\* C28: once a socket is closed and its join_room handler has finished, no
\* entry of the registry holds it.
C28_ClosedSocketNotRegistered ==
    \A c \in ConnIds :
        (conn[c].readyState = "CLOSED" /\ wsJoin[c].pc = "idle") =>
        c \notin HandlesIn(roomConnections)

-----------------------------------------------------------------------------
(* Specification of votes when two rooms have resolutions: r1 with both     *)
(* participants and the batch 1..3, r2 of u1 alone with the batch 4..6.     *)
(* The resolutionId of a vote request is whatever the body holds.           *)

\* bound: vote requests in one run of this specification
MaxRoomsVoteReqs == 2
RoomsVoteReqIds == 1..MaxRoomsVoteReqs
\* a resolution of r1 and one of r2
BodyResolutionIds == {1, 4}

InitVoteRooms ==
    /\ rooms = [r \in {"r1", "r2"} |->
                  IF r = "r1" THEN RoomRow("u1", "u1", "u2")
                  ELSE RoomRow("u1", "u1", Null)]
    /\ messages = <<>>
    /\ votes = <<>>
    /\ resolutions = Batch("r1") \o Batch("r2")
    /\ resolutionCounts = EmptyMap
    /\ today = 1
    /\ hf = TRUE
    /\ roomConnections =
         [r \in {"r1"} |->
            [u \in {"u1", "u2"} |->
               [ws |-> IF u = "u1" THEN "c1" ELSE "c3",
                userName |-> ConnName[IF u = "u1" THEN "c1" ELSE "c3"]]]]
    /\ conn = [c \in ConnIds |->
                 [readyState |-> "OPEN", authenticatedUserId |-> ConnUser[c],
                  currentRoomId |-> IF c = "c2" THEN Null ELSE "r1"]]
    /\ wsJoin = [c \in ConnIds |-> [pc |-> "idle", roomId |-> Null, userName |-> Null]]
    /\ wsMsgs = 0
    /\ joined = [c \in ConnIds |-> IF c = "c2" THEN Null ELSE "r1"]
    /\ sent = <<>>
    /\ req = [h \in ReqIds |-> IdleReq]

NextVoteRooms ==
    \/ \E h \in RoomsVoteReqIds, u \in VoteUsers, x \in BodyResolutionIds :
          VoteRequest(h, u, "r1", x)
    \/ \E h \in RoomsVoteReqIds : VoteEnsureRoomMember(h)
    \/ \E h \in RoomsVoteReqIds : VoteGetUserVote(h)
    \/ \E h \in RoomsVoteReqIds : VoteCreateVote(h)
    \/ \E h \in RoomsVoteReqIds : VoteGetRoomVotes(h)
    \/ \E h \in RoomsVoteReqIds : VoteUpdateRoomStatus(h)
    \/ \E h \in RoomsVoteReqIds : VoteGetResolutionById(h)

SpecVoteRooms == InitVoteRooms /\ [][NextVoteRooms]_vars

\* C29: every recorded vote references a resolution of the room the vote
\* belongs to, and a room_resolved event carries a resolution of its room.
C29_VoteReferencesOwnRoom ==
    /\ \A i \in 1..Len(votes) :
         resolutions[votes[i].resolutionId].roomId = votes[i].roomId
    /\ \A i \in 1..Len(sent) :
         sent[i].message.type = "room_resolved" =>
         resolutions[sent[i].message.resolution].roomId = sent[i].roomId

-----------------------------------------------------------------------------
\* C30: when a join-by-code request is answered with success, the caller is
\* a member of the room at that moment; in particular a join on a room whose
\* two slots are held by other identities is not answered with success.
C30_JoinSuccessImpliesMember ==
    [][ \A h \in JoinReqIds :
          ( /\ req[h].op = "join" /\ req[h].pc # "done"
            /\ req'[h].pc = "done" /\ req'[h].result = "ok" ) =>
          (req[h].userId \in Members(req[h].roomId))'
      ]_vars

====
